---- MODULE Spec2Model ----
(***************************************************************************)
(* Model of pkg/util/types/pvc.go (KubeVirt): the four PVC queries         *)
(*   IsPVCBlockFromStore, IsPVCBlockFromClient, IsSharedPVCFromClient and  *)
(*   GetPVCHostPathFromStore                                               *)
(* over a cache store of claims, a cache store of volumes and the live     *)
(* API.  The queries are stateless: the state is the environment they read *)
(* and the arguments they are called with (fixed by Init) and, per query,  *)
(* the record of its last invocation: the lookups it issued and what it    *)
(* returned (or that it panicked).                                         *)
(***************************************************************************)
EXTENDS Naturals, Sequences, FiniteSets, TLC

VARIABLES
    pvcStore,        \* cache.Store of claims: key string -> object
    pvStore,         \* cache.Store of volumes: key string -> object
    apiClaims,       \* the claims the API server holds (a set of claim records)
    namespace,       \* the namespace argument of the queries
    claimName,       \* the claimName argument of the queries
    blockFromStore,  \* last invocation of IsPVCBlockFromStore
    blockFromClient, \* last invocation of IsPVCBlockFromClient
    sharedFromClient,\* last invocation of IsSharedPVCFromClient
    hostPath         \* last invocation of GetPVCHostPathFromStore

vars == <<pvcStore, pvStore, apiClaims, namespace, claimName, blockFromStore, blockFromClient,
          sharedFromClient, hostPath>>

env == <<pvcStore, pvStore, apiClaims, namespace, claimName>>

----------------------------------------------------------------------------
(* Bounds *)

\* longest access-mode list a claim carries
MaxModes == 2

----------------------------------------------------------------------------
(* Values of the Kubernetes object schemas the code reads *)

\* a nil pointer / nil interface value
NilObj == [kind |-> "nil"]

\* a nil error
NoErr == [reason |-> "nil"]

\* k8sv1.PersistentVolumeBlock / PersistentVolumeFilesystem; "nil" is an unset *VolumeMode
VolumeModes == {"nil", "Block", "Filesystem"}

\* k8sv1.ReadWriteOnce, ReadOnlyMany, ReadWriteMany
AccessModeValues == {"ReadWriteOnce", "ReadOnlyMany", "ReadWriteMany"}

\* k8sv1.ClaimPending, ClaimBound, ClaimLost
ClaimPhases == {"Pending", "Bound", "Lost"}

\* the (namespace, name) identities of the claims that may exist
ClaimIds == {<<"ns", "c1">>, <<"other", "c2">>}

\* the names of the volumes that may exist
VolumeNames == {"pv1", "pv2"}

\* the namespace and claimName arguments callers pass
ReqNamespaces == {"ns", "other", ""}
ReqNames == {"c1", "c2", "ns/c1"}

\* *k8sv1.PersistentVolumeClaim
PVC(id, volumeMode, accessModes, phase, volumeName) ==
    [kind |-> "PersistentVolumeClaim", namespace |-> id[1], name |-> id[2],
     volumeMode |-> volumeMode, accessModes |-> accessModes,
     phase |-> phase, volumeName |-> volumeName]

\* *k8sv1.PersistentVolume; hostPath is NilObj or a HostPathVolumeSource
PV(name, hostPathSrc) ==
    [kind |-> "PersistentVolume", namespace |-> "", name |-> name,
     hostPath |-> hostPathSrc]

HostPathSource(path) == [kind |-> "HostPathVolumeSource", path |-> path]

\* an object of another type that a store hands back
Foreign(ns, name) == [kind |-> "Pod", namespace |-> ns, name |-> name]

\* the zero claim a typed client hands back beside an error
EmptyPVC == PVC(<<"", "">>, "nil", <<>>, "", "")

\* sequences over S of length at most n
SeqUpTo(S, n) == UNION {[1..k -> S] : k \in 0..n}

----------------------------------------------------------------------------
(* The collaborators: cache.Store and the API client *)

\* the key under which an informer's store indexes an object
StoreKeyOf(obj) ==
    IF obj.namespace = "" THEN obj.name ELSE obj.namespace \o "/" \o obj.name

\* the store that indexes the objects objs (of distinct keys)
StoreOf(objs) ==
    [k \in {StoreKeyOf(o) : o \in objs} |-> CHOOSE o \in objs : StoreKeyOf(o) = k]

\* what a lookup may answer instead of consulting the index
StoreFaults ==
    {[err |-> NoErr, exists |-> FALSE]}
        \cup {[err |-> [reason |-> "StoreLookupFailed"], exists |-> e] : e \in BOOLEAN}

\* store.GetByKey(key): (obj, exists, err)
GetByKey(store, key, fault) ==
    IF fault.err # NoErr
    THEN [obj |-> NilObj, exists |-> fault.exists, err |-> fault.err]
    ELSE IF key \in DOMAIN store
         THEN [obj |-> store[key], exists |-> TRUE, err |-> NoErr]
         ELSE [obj |-> NilObj, exists |-> FALSE, err |-> NoErr]

\* what a get may answer instead of the server's content: no fault, or an API
\* error together with the record the client hands back beside it
ClientFaults ==
    {[err |-> NoErr, pvc |-> NilObj]}
        \cup {[err |-> [reason |-> r], pvc |-> p] :
                r \in {"Forbidden", "ServerTimeout"}, p \in {NilObj, EmptyPVC}}

NotFoundErr == [reason |-> "NotFound"]

\* client.CoreV1().PersistentVolumeClaims(namespace).Get(ctx, claimName, opts): (pvc, err)
ClientGet(claims, ns, name, fault) ==
    IF fault.err # NoErr
    THEN [pvc |-> fault.pvc, err |-> fault.err]
    ELSE IF \E c \in claims : c.namespace = ns /\ c.name = name
         THEN [pvc |-> CHOOSE c \in claims : c.namespace = ns /\ c.name = name,
               err |-> NoErr]
         ELSE [pvc |-> EmptyPVC, err |-> NotFoundErr]

\* every API error taken for NotFound
IsAnyError(err) == err.reason # "nil"

\* errors.IsNotFound(err)
IsNotFound(err) == err.reason = "NotFound"

----------------------------------------------------------------------------
(* pvc.go *)

\* the key composed without its separator
ClaimKeyNoSeparator(ns, name) == ns \o name

\* namespace + "/" + claimName
ClaimKey(ns, name) == ns \o "/" \o name

\* obj.(*k8sv1.PersistentVolumeClaim)
IsPVC(obj) == obj.kind = "PersistentVolumeClaim"

\* obj.(*k8sv1.PersistentVolume)
IsPV(obj) == obj.kind = "PersistentVolume"

\* an unset volume mode taken for Block
isPVCBlockUnlessFilesystem(pvc) == pvc.volumeMode = "nil" \/ pvc.volumeMode = "Block"

isPVCBlock(pvc) == pvc.volumeMode # "nil" /\ pvc.volumeMode = "Block"

RECURSIVE SharedFrom(_, _)
\* the range loop of IsPVCShared from index i on
SharedFrom(accessModes, i) ==
    IF i > Len(accessModes) THEN FALSE
    ELSE IF accessModes[i] = "ReadWriteMany" THEN TRUE
    ELSE SharedFrom(accessModes, i + 1)

\* only the first access mode inspected
IsPVCSharedFirstOnly(pvc) ==
    Len(pvc.accessModes) >= 1 /\ pvc.accessModes[1] = "ReadWriteMany"

IsPVCShared(pvc) == SharedFrom(pvc.accessModes, 1)

\* the (pvc, exists, isBlockDevice, err) result of the block queries
BlockRet(pvc, exists, isBlockDevice, err) ==
    [pvc |-> pvc, exists |-> exists, isBlockDevice |-> isBlockDevice, err |-> err]

\* the lookup's error dropped
StoreMissNoErr(r) == BlockRet(NilObj, r.exists, FALSE, NoErr)

\* return nil, exists, false, err
StoreMiss(r) == BlockRet(NilObj, r.exists, FALSE, r.err)

\* an object of another type handed back as found
NotAPVCAsFound(obj) == BlockRet(obj, TRUE, FALSE, NoErr)

\* return nil, false, false, fmt.Errorf("this is not a PVC! %v", obj)
NotAPVC(obj) ==
    BlockRet(NilObj, FALSE, FALSE, [reason |-> "this is not a PVC!", obj |-> obj])

\* return obj.(*k8sv1.PersistentVolumeClaim), true, isPVCBlock(pvc), nil
Found(pvc) == BlockRet(pvc, TRUE, isPVCBlock(pvc), NoErr)

IsPVCBlockFromStoreRun(store, ns, name, fault) ==
    LET key == ClaimKey(ns, name)
        r == GetByKey(store, key, fault)
    IN [op |-> "IsPVCBlockFromStore",
        lookups |-> <<[target |-> "pvcStore", key |-> key, exists |-> r.exists,
                       err |-> r.err]>>,
        ret |-> IF r.err # NoErr \/ ~r.exists THEN StoreMiss(r)
                ELSE IF IsPVC(r.obj) THEN Found(r.obj)
                ELSE NotAPVC(r.obj)]

\* the two error branches of IsPVCBlockFromClient
ClientMiss(r) ==
    IF IsNotFound(r.err) THEN BlockRet(NilObj, FALSE, FALSE, NoErr)
    ELSE BlockRet(NilObj, FALSE, FALSE, r.err)

IsPVCBlockFromClientRun(claims, ns, name, fault) ==
    LET r == ClientGet(claims, ns, name, fault)
    IN [op |-> "IsPVCBlockFromClient",
        lookups |-> <<[target |-> "client", key |-> <<ns, name>>,
                       exists |-> r.err = NoErr, err |-> r.err]>>,
        ret |-> IF r.err # NoErr THEN ClientMiss(r) ELSE Found(r.pvc)]

\* isShared after the fetch answered r
SharedFlag(r) == IF r.err = NoErr THEN IsPVCShared(r.pvc) ELSE FALSE

IsSharedPVCFromClientRun(claims, ns, name, fault) ==
    LET r == ClientGet(claims, ns, name, fault)
    IN [op |-> "IsSharedPVCFromClient",
        lookups |-> <<[target |-> "client", key |-> <<ns, name>>,
                       exists |-> r.err = NoErr, err |-> r.err]>>,
        ret |-> [pvc |-> r.pvc, isShared |-> SharedFlag(r), err |-> r.err]]

\* GetPVCHostPathFromStore returned (path, err) after the lookups
Returned(lookups, path, err) ==
    [op |-> "GetPVCHostPathFromStore", lookups |-> lookups, outcome |-> "returned",
     path |-> path, err |-> err]

\* GetPVCHostPathFromStore dereferenced a nil pointer after the lookups
Panicked(lookups) ==
    [op |-> "GetPVCHostPathFromStore", lookups |-> lookups, outcome |-> "panic"]

\* the volume name left unchecked
IsBoundAnyVolume(pvc) == pvc.phase = "Bound"

\* pvc.Status.Phase == k8sv1.ClaimBound && pvc.Spec.VolumeName != ""
IsBoundWithVolume(pvc) == pvc.phase = "Bound" /\ pvc.volumeName # ""

\* the host path never read
HostPathOfBlank(lookups, pv) == Returned(lookups, "", NoErr)

\* the answer once the volume pv is in hand
HostPathOf(lookups, pv) ==
    IF pv.hostPath # NilObj THEN Returned(lookups, pv.hostPath.path, NoErr)
    ELSE Returned(lookups, "", NoErr)

\* return "", fmt.Errorf("Unable to find PVC %s/%s", namespace, claimName)
ClaimNotFound(lookups, ns, name) ==
    Returned(lookups, "", [reason |-> "Unable to find PVC", key |-> ns \o "/" \o name])

\* a missing volume taken for a volume of another source
VolumeNotFoundAsBlank(lookups, name) == Returned(lookups, "", NoErr)

\* return "", fmt.Errorf("Unable to find PV %s", pvc.Spec.VolumeName)
VolumeNotFound(lookups, name) ==
    Returned(lookups, "", [reason |-> "Unable to find PV", key |-> name])

\* the body of the if: the lookup of the bound volume and what follows it
VolumeStage(store, lookups, pvc, fault) ==
    LET r == GetByKey(store, pvc.volumeName, fault)
        ls == Append(lookups, [target |-> "pvStore", key |-> pvc.volumeName,
                               exists |-> r.exists, err |-> r.err])
    IN IF r.err # NoErr THEN Returned(ls, "", r.err)
       ELSE IF ~r.exists THEN VolumeNotFound(ls, pvc.volumeName)
       ELSE LET pv == IF IsPV(r.obj) THEN r.obj ELSE NilObj
            IN IF pv = NilObj THEN Panicked(ls) ELSE HostPathOf(ls, pv)

GetPVCHostPathFromStoreRun(claimStore, volumeStore, ns, name, claimFault, volumeFault) ==
    LET key == ClaimKey(ns, name)
        r == GetByKey(claimStore, key, claimFault)
        ls == <<[target |-> "pvcStore", key |-> key, exists |-> r.exists, err |-> r.err]>>
    IN IF r.err # NoErr THEN Returned(ls, "", r.err)
       ELSE IF ~r.exists THEN ClaimNotFound(ls, ns, name)
       ELSE LET pvc == IF IsPVC(r.obj) THEN r.obj ELSE NilObj
            IN IF pvc = NilObj THEN Panicked(ls)
               ELSE IF IsBoundWithVolume(pvc)
                    THEN VolumeStage(volumeStore, ls, pvc, volumeFault)
               ELSE Returned(ls, "", NoErr)

\* no invocation yet
NoCall == [op |-> "none"]

IsPVCBlockFromStore ==
    \E fault \in StoreFaults :
        /\ blockFromStore' = IsPVCBlockFromStoreRun(pvcStore, namespace, claimName, fault)
        /\ UNCHANGED <<env, blockFromClient, sharedFromClient, hostPath>>

IsPVCBlockFromClient ==
    \E fault \in ClientFaults :
        /\ blockFromClient' = IsPVCBlockFromClientRun(apiClaims, namespace, claimName, fault)
        /\ UNCHANGED <<env, blockFromStore, sharedFromClient, hostPath>>

IsSharedPVCFromClient ==
    \E fault \in ClientFaults :
        /\ sharedFromClient' = IsSharedPVCFromClientRun(apiClaims, namespace, claimName, fault)
        /\ UNCHANGED <<env, blockFromStore, blockFromClient, hostPath>>

GetPVCHostPathFromStore ==
    \E claimFault \in StoreFaults, volumeFault \in StoreFaults :
        /\ hostPath' = GetPVCHostPathFromStoreRun(pvcStore, pvStore, namespace, claimName,
                                                  claimFault, volumeFault)
        /\ UNCHANGED <<env, blockFromStore, blockFromClient, sharedFromClient>>

----------------------------------------------------------------------------
(* The environments of the queries *)

\* the sets of objects that hold, per identity id, at most one of slots[id]
Contents(slots) ==
    {{f[id] : id \in DOMAIN slots} \ {NilObj} :
        f \in {g \in [DOMAIN slots -> UNION {slots[id] : id \in DOMAIN slots} \cup {NilObj}] :
                 \A id \in DOMAIN slots : g[id] \in slots[id] \cup {NilObj}}}

\* no query was invoked yet; the arguments are any a caller passes
InitCalls ==
    /\ namespace \in ReqNamespaces
    /\ claimName \in ReqNames
    /\ blockFromStore = NoCall
    /\ blockFromClient = NoCall
    /\ sharedFromClient = NoCall
    /\ hostPath = NoCall

\* the claims the API server may hold under identity id, of every volume mode
BlockClaims(id) == {PVC(id, m, <<"ReadWriteOnce">>, "Pending", "") : m \in VolumeModes}

\* the objects a claim store may hold under identity id: a claim, or an
\* object of another type
BlockObjects(id) == BlockClaims(id) \cup {Foreign(id[1], id[2])}

InitBlock ==
    /\ pvcStore \in {StoreOf(objs) : objs \in Contents([id \in ClaimIds |-> BlockObjects(id)])}
    /\ pvStore = StoreOf({})
    /\ apiClaims \in Contents([id \in ClaimIds |-> BlockClaims(id)])
    /\ InitCalls

NextBlock == IsPVCBlockFromStore \/ IsPVCBlockFromClient

SpecBlock == InitBlock /\ [][NextBlock]_vars

\* the claims the API server may hold under identity id, of every access-mode list
SharedClaims(id) ==
    {PVC(id, "Filesystem", am, "Bound", "pv1") : am \in SeqUpTo(AccessModeValues, MaxModes)}

InitShared ==
    /\ pvcStore = StoreOf({})
    /\ pvStore = StoreOf({})
    /\ apiClaims \in Contents([id \in ClaimIds |-> SharedClaims(id)])
    /\ InitCalls

NextShared == IsSharedPVCFromClient

SpecShared == InitShared /\ [][NextShared]_vars

\* the objects a claim store may hold under identity id: a claim of every
\* phase and bound volume name, or an object of another type
HostPathClaimObjects(id) ==
    {PVC(id, "Filesystem", <<"ReadWriteOnce">>, ph, v) :
        ph \in ClaimPhases, v \in VolumeNames \cup {""}}
        \cup {Foreign(id[1], id[2])}

\* the paths of the host-path volumes
HostPaths == {"/data/x", ""}

\* the objects a volume store may hold under name: a host-path volume, a
\* volume of another source, or an object of another type
HostPathVolumeObjects(name) ==
    {PV(name, HostPathSource(p)) : p \in HostPaths}
        \cup {PV(name, NilObj), Foreign("", name)}

InitHostPath ==
    /\ pvcStore \in {StoreOf(objs) :
                        objs \in Contents([id \in ClaimIds |-> HostPathClaimObjects(id)])}
    /\ pvStore \in {StoreOf(objs) :
                       objs \in Contents([id \in VolumeNames |-> HostPathVolumeObjects(id)])}
    /\ apiClaims = {}
    /\ InitCalls

NextHostPath == GetPVCHostPathFromStore

SpecHostPath == InitHostPath /\ [][NextHostPath]_vars

----------------------------------------------------------------------------
(* Properties *)

\* the key "<namespace>/<name>" of the arguments
RequestKey == namespace \o "/" \o claimName

\* the object the claim store holds under the arguments' key, NilObj if none
StoredObject == IF RequestKey \in DOMAIN pvcStore THEN pvcStore[RequestKey] ELSE NilObj

\* the claims the API server holds under the arguments
ApiClaimsAsked == {c \in apiClaims : c.namespace = namespace /\ c.name = claimName}

\* the claim store's snapshot and the API server hold the same claim records
SameClaimRecords == pvcStore = StoreOf(apiClaims)

\* the only get a client query issued
ClientLookup(call) == call.lookups[1]

\* C1: with the claim store and the API holding the same claim records and
\* neither lookup failing with a lookup error, IsPVCBlockFromStore and
\* IsPVCBlockFromClient return the same answer: (claim, true, blockMode, nil)
\* when the claim is present and (nil, false, false, nil) when it is absent.
C1_StoreAndClientAgree ==
    ( /\ blockFromStore.op # "none"
      /\ blockFromClient.op # "none"
      /\ SameClaimRecords
      /\ blockFromStore.lookups[1].err = NoErr
      /\ ClientLookup(blockFromClient).err \in {NoErr, NotFoundErr} )
    => /\ blockFromStore.ret = blockFromClient.ret
       /\ \A c \in ApiClaimsAsked :
             blockFromStore.ret = BlockRet(c, TRUE, c.volumeMode = "Block", NoErr)
       /\ ApiClaimsAsked = {} => blockFromStore.ret = BlockRet(NilObj, FALSE, FALSE, NoErr)

C1_Witness ==
    /\ blockFromStore.op # "none"
    /\ blockFromClient.op # "none"
    /\ SameClaimRecords
    /\ ApiClaimsAsked # {}
    /\ blockFromStore.ret.exists
    /\ blockFromStore.ret.isBlockDevice
    /\ blockFromStore.ret = blockFromClient.ret

\* the first lookup of the host-path query answered with a claim
ClaimLocated ==
    /\ hostPath.op # "none"
    /\ hostPath.lookups[1].err = NoErr
    /\ StoredObject.kind = "PersistentVolumeClaim"

\* the located claim is Bound and names a volume
ClaimBoundToVolume ==
    /\ ClaimLocated
    /\ StoredObject.phase = "Bound"
    /\ StoredObject.volumeName # ""

\* the object the volume store holds under the located claim's volume name
BoundVolumeObject ==
    IF StoredObject.volumeName \in DOMAIN pvStore
    THEN pvStore[StoredObject.volumeName] ELSE NilObj

\* the lookup of the bound volume answered with a volume
VolumeLocated ==
    /\ ClaimBoundToVolume
    /\ Len(hostPath.lookups) = 2
    /\ hostPath.lookups[2].err = NoErr
    /\ BoundVolumeObject.kind = "PersistentVolume"

\* C2: for a claim present in the claim store, Bound, naming a volume that
\* is present in the volume store, GetPVCHostPathFromStore returns (the
\* volume's host path, nil) when the volume has a host-path source and
\* ("", nil) when it has another source; it returns a non-empty path in no
\* other situation.
C2_HostPathResolved ==
    hostPath.op # "none" =>
        /\ VolumeLocated =>
              /\ hostPath.outcome = "returned"
              /\ hostPath.err = NoErr
              /\ hostPath.path = IF BoundVolumeObject.hostPath.kind = "HostPathVolumeSource"
                                 THEN BoundVolumeObject.hostPath.path ELSE ""
        /\ (hostPath.outcome = "returned" /\ hostPath.path # "") =>
              /\ VolumeLocated
              /\ BoundVolumeObject.hostPath.kind = "HostPathVolumeSource"

C2_Witness ==
    /\ VolumeLocated
    /\ hostPath.outcome = "returned"
    /\ hostPath.path = "/data/x"
    /\ hostPath.err = NoErr

\* C3: GetPVCHostPathFromStore returns a non-nil error and an empty path
\* whenever the claim key is missing from the claim store or the claim-store
\* lookup errors, and whenever the claim is Bound with a volume name whose
\* key is missing from the volume store or whose lookup errors.
C3_MissingIsAnError ==
    hostPath.op # "none" =>
        LET failed == /\ hostPath.outcome = "returned"
                      /\ hostPath.err # NoErr
                      /\ hostPath.path = ""
        IN /\ hostPath.lookups[1].err # NoErr => failed
           /\ (hostPath.lookups[1].err = NoErr /\ RequestKey \notin DOMAIN pvcStore) => failed
           /\ (ClaimBoundToVolume /\ StoredObject.volumeName \notin DOMAIN pvStore) => failed
           /\ (ClaimBoundToVolume /\ Len(hostPath.lookups) = 2
                 /\ hostPath.lookups[2].err # NoErr) => failed

C3_Witness ==
    /\ ClaimBoundToVolume
    /\ StoredObject.volumeName \notin DOMAIN pvStore
    /\ Len(hostPath.lookups) = 2
    /\ hostPath.lookups[2].err = NoErr
    /\ hostPath.outcome = "returned"
    /\ hostPath.err.reason = "Unable to find PV"

\* C4: when the located claim is not Bound or names no volume,
\* GetPVCHostPathFromStore returns ("", nil) without a lookup against the
\* volume store; a volume-store lookup is issued only after a claim lookup
\* that answered with a Bound claim naming a volume.
C4_VolumeLookupOnlyWhenBound ==
    hostPath.op # "none" =>
        /\ (ClaimLocated /\ ~ClaimBoundToVolume) =>
              /\ hostPath.outcome = "returned"
              /\ hostPath.path = ""
              /\ hostPath.err = NoErr
              /\ \A i \in DOMAIN hostPath.lookups : hostPath.lookups[i].target # "pvStore"
        /\ \A i \in DOMAIN hostPath.lookups :
              hostPath.lookups[i].target = "pvStore" =>
                  /\ i = 2
                  /\ hostPath.lookups[1].target = "pvcStore"
                  /\ hostPath.lookups[1].exists
                  /\ ClaimBoundToVolume
                  /\ hostPath.lookups[i].key = StoredObject.volumeName

C4_Witness ==
    /\ ClaimLocated
    /\ StoredObject.phase = "Bound"
    /\ StoredObject.volumeName = ""
    /\ hostPath.outcome = "returned"
    /\ Len(hostPath.lookups) = 1

\* a store of the host-path query answered with an object of another type
TypeMismatch ==
    /\ hostPath.op # "none"
    /\ hostPath.lookups[1].err = NoErr
    /\ \/ (StoredObject # NilObj /\ StoredObject.kind # "PersistentVolumeClaim")
       \/ /\ ClaimBoundToVolume
          /\ Len(hostPath.lookups) = 2
          /\ hostPath.lookups[2].err = NoErr
          /\ BoundVolumeObject # NilObj
          /\ BoundVolumeObject.kind # "PersistentVolume"

\* C5: in GetPVCHostPathFromStore a type mismatch (the claim store or the
\* volume store answering with an object of another type) does not make the
\* operation fail: the call still completes by returning a (path, error)
\* result.
C5_MismatchStillReturns == TypeMismatch => hostPath.outcome = "returned"

\* the lookup of the store block query answered with an object that is no claim
StoreAnsweredNonClaim ==
    /\ blockFromStore.op # "none"
    /\ blockFromStore.lookups[1].err = NoErr
    /\ StoredObject # NilObj
    /\ StoredObject.kind # "PersistentVolumeClaim"

\* C6: IsPVCBlockFromStore, when the store holds under "<namespace>/<name>"
\* an object that is not a claim record, returns a non-nil type-mismatch
\* error with a nil record, exists=false and isBlockDevice=false; it never
\* reports exists=true for a non-claim object.
C6_NonClaimIsAnError ==
    blockFromStore.op # "none" =>
        /\ StoreAnsweredNonClaim =>
              /\ blockFromStore.ret.err # NoErr
              /\ blockFromStore.ret.err.reason = "this is not a PVC!"
              /\ blockFromStore.ret.pvc = NilObj
              /\ ~blockFromStore.ret.exists
              /\ ~blockFromStore.ret.isBlockDevice
        /\ (blockFromStore.ret.exists /\ blockFromStore.ret.err = NoErr) =>
              blockFromStore.ret.pvc.kind = "PersistentVolumeClaim"

C6_Witness ==
    /\ StoreAnsweredNonClaim
    /\ blockFromStore.ret.err # NoErr
    /\ blockFromStore.ret.err.obj = StoredObject

\* C7: IsPVCBlockFromClient suppresses exactly the NotFound failure: on
\* NotFound it returns (nil, false, false, nil); on any other error it
\* returns that error unchanged with a nil record, exists=false and
\* isBlockDevice=false; it issues a single get and never retries.
C7_OnlyNotFoundSuppressed ==
    blockFromClient.op # "none" =>
        LET get == ClientLookup(blockFromClient)
        IN /\ Len(blockFromClient.lookups) = 1
           /\ get.err = NotFoundErr =>
                 blockFromClient.ret = BlockRet(NilObj, FALSE, FALSE, NoErr)
           /\ get.err \notin {NoErr, NotFoundErr} =>
                 blockFromClient.ret = BlockRet(NilObj, FALSE, FALSE, get.err)
           /\ blockFromClient.ret.err = NoErr <=> get.err \in {NoErr, NotFoundErr}

C7_Witness ==
    /\ blockFromClient.op # "none"
    /\ ClientLookup(blockFromClient).err.reason = "Forbidden"
    /\ ApiClaimsAsked # {}
    /\ blockFromClient.ret.err.reason = "Forbidden"
    /\ ~blockFromClient.ret.exists

\* C8: IsSharedPVCFromClient returns isShared=true if and only if the fetch
\* succeeded and the claim's access modes contain ReadWriteMany, at any
\* position; on any fetch error, NotFound included, it returns that error
\* and isShared=false.
C8_SharedIffReadWriteMany ==
    sharedFromClient.op # "none" =>
        LET get == ClientLookup(sharedFromClient)
        IN /\ sharedFromClient.ret.isShared <=>
                 /\ get.err = NoErr
                 /\ \E c \in ApiClaimsAsked :
                       \E i \in DOMAIN c.accessModes : c.accessModes[i] = "ReadWriteMany"
           /\ get.err # NoErr =>
                 /\ sharedFromClient.ret.err = get.err
                 /\ ~sharedFromClient.ret.isShared
           /\ (get.err = NoErr) = (sharedFromClient.ret.err = NoErr)

C8_Witness ==
    /\ sharedFromClient.op # "none"
    /\ sharedFromClient.ret.err = NoErr
    /\ sharedFromClient.ret.isShared
    /\ Len(sharedFromClient.ret.pvc.accessModes) = 2
    /\ sharedFromClient.ret.pvc.accessModes[1] # "ReadWriteMany"

\* a block query's answer: true exactly for a volume mode that is set and Block
BlockFlagRight(call) ==
    (call.op # "none" /\ call.ret.exists /\ call.ret.err = NoErr) =>
        /\ call.ret.isBlockDevice <=> call.ret.pvc.volumeMode = "Block"
        /\ call.ret.pvc.volumeMode \in {"nil", "Filesystem"} => ~call.ret.isBlockDevice

\* C9: the isBlockDevice flag IsPVCBlockFromStore and IsPVCBlockFromClient
\* return for a found claim is true if and only if the claim's volume mode
\* is present and equals Block; unset or Filesystem always yields false.
C9_BlockIffVolumeModeBlock == BlockFlagRight(blockFromStore) /\ BlockFlagRight(blockFromClient)

C9_Witness ==
    /\ blockFromStore.op # "none"
    /\ blockFromStore.ret.exists
    /\ blockFromStore.ret.err = NoErr
    /\ blockFromStore.ret.pvc.volumeMode = "nil"
    /\ ~blockFromStore.ret.isBlockDevice

\* the three shapes of a block query's result
ShapeFound(ret) ==
    ret.pvc.kind = "PersistentVolumeClaim" /\ ret.exists /\ ret.err = NoErr
ShapeAbsent(ret) == ret.pvc = NilObj /\ ~ret.exists /\ ret.err = NoErr
ShapeError(ret) == ret.err # NoErr /\ ret.pvc = NilObj /\ ~ret.isBlockDevice

\* a block query's result has exactly one of the three shapes
OneShape(call) ==
    call.op # "none" =>
        Cardinality({i \in 1..3 : \/ i = 1 /\ ShapeFound(call.ret)
                                  \/ i = 2 /\ ShapeAbsent(call.ret)
                                  \/ i = 3 /\ ShapeError(call.ret)}) = 1

\* C10: every result of IsPVCBlockFromStore and IsPVCBlockFromClient, over
\* all contents and lookup outcomes, has exactly one of three shapes: a
\* claim record with exists=true and a nil error; exists=false with a nil
\* record and a nil error; a non-nil error with a nil record and
\* isBlockDevice=false.
C10_ThreeShapes == OneShape(blockFromStore) /\ OneShape(blockFromClient)

C10_Witness ==
    /\ blockFromStore.op # "none"
    /\ blockFromStore.lookups[1].err # NoErr
    /\ blockFromStore.lookups[1].exists
    /\ StoredObject # NilObj
    /\ ShapeError(blockFromStore.ret)

====
